---- MODULE Spec2Model ----
(***************************************************************************)
(* State-machine model of style2vec/models/style2vecbeta.py:               *)
(*   - SamplesGenerator (collect_data, generate_samples, generate_batches, *)
(*     prep_item),                                                         *)
(*   - Style2Vec (__init__, fit),                                          *)
(*   - the module-level training script (try / except around fit).         *)
(* Two specifications share the actions:                                   *)
(*   SpecSamples  a SamplesGenerator built and called directly             *)
(*   Spec         the training script: Style2Vec(...), fit(), save         *)
(* Python's None is the empty tuple, a present value v is <<v>>.           *)
(* Random draws (randrange, choice, shuffle) are nondeterministic choices  *)
(* over every value they can return.  The network Style2Vec builds is not  *)
(* modelled beyond the two weight loads; fit_generator is a consumer that  *)
(* pulls epochs * steps_per_epoch batches, one training step each.         *)
(***************************************************************************)
EXTENDS FiniteSets, Integers, Sequences, TLC

\* ------------------------------------------------------------ bounds
MaxOutfits == 2
MaxItems == 2
MaxSetIdBase == 1
MaxNeg == 2
MaxBatch == 2
MaxLimit == 1
MaxSamples == 4
MaxEpochs == 2
MaxTrainSamples == 4
MaxTrainItems == 2
MaxLoads == 1

\* ------------------------------------------------- program constants
\* neg_sample_count: int = 5 (the default Style2Vec leaves in place)
DefaultNegSampleCount == 5
\* batch_size: int = 10
DefaultBatchSize == 10
\* the "-1 for inf" value of outfits_count_limit and samples_count_limit
Unlimited == 0 - 1

None == <<>>
Some(v) == <<v>>

Min(a, b) == IF a < b THEN a ELSE b
Max(a, b) == IF a > b THEN a ELSE b
Range(s) == {s[i] : i \in 1..Len(s)}

\* ---------------------------------------------------- pure functions

\* Python's s[:k], negative k counted from the end
PySlice(s, k) ==
  IF k >= 0 THEN SubSeq(s, 1, Min(k, Len(s)))
  ELSE SubSeq(s, 1, Max(Len(s) + k, 0))

\* collect_data: the loaded list, cut to the first outfits_count_limit
LoadDataNoSentinel(f, limit) ==
  IF limit < Len(f) THEN PySlice(f, limit) ELSE f

LoadData(f, limit) ==
  IF limit # Unlimited /\ limit < Len(f) THEN PySlice(f, limit) ELSE f

\* random.randrange(n): the values it can return; empty means ValueError
RandRangeInclusive(n) == 0..n

RandRange(n) == 0..(n - 1)

\* the positive samples of one item: one per context that differs from it
PositivesWithSelf(items, item) ==
  [i \in 1..Len(items) |-> <<<<item, items[i]>>, 1>>]

Positives(items, item) ==
  LET ctx == SelectSeq(items, LAMBDA c : c # item)
  IN  [i \in 1..Len(ctx) |-> <<<<item, ctx[i]>>, 1>>]

RemoveAt(s, i) == SubSeq(s, 1, i - 1) \o SubSeq(s, i + 1, Len(s))

\* random.shuffle: every ordering of the list
RECURSIVE Shuffles(_)
Shuffles(s) ==
  IF s = <<>> THEN {<<>>}
  ELSE UNION {{<<s[i]>> \o t : t \in Shuffles(RemoveAt(s, i))} :
                i \in {j \in 1..Len(s) : \A h \in 1..(j - 1) : s[h] # s[j]}}

\* samples[:samples_count_limit] when the limit is set and smaller
CutSamples(s, limit) ==
  IF limit # Unlimited /\ limit < Len(s) THEN PySlice(s, limit) ELSE s

\* math.floor(len(samples) / batch_size), batch_size >= 1
StepsPerEpoch(n, bs) == n \div bs

\* zip(*samples): (couples, labels)
Unzip(s) == <<[i \in 1..Len(s) |-> s[i][1]], [i \in 1..Len(s) |-> s[i][2]]>>

\* prep_item: the image at images_path + item["ImagePath"] as a tensor
PrepItem(item) == [tensor |-> item.ImagePath]

\* ------------------------------------------------------------ inputs
\* Files are lists of outfits with at least one item each; the k-th outfit's
\* items carry paths <<k, j>>, so no item is shared between outfits, and
\* SetIds are consecutive from a base (base 0: SetId = list index).
Item(k, j) == [ImagePath |-> <<k, j>>]

\* item lists of the k-th outfit: distinct items, or the last repeats the first
ItemSeqs(k) ==
  {[j \in 1..n |-> Item(k, IF d /\ j = n THEN 1 ELSE j)] :
     n \in 1..MaxItems, d \in BOOLEAN}

FilesOfLen(n) ==
  {[k \in 1..n |-> [SetId |-> b + k - 1, Items |-> its[k]]] :
     b \in 0..MaxSetIdBase,
     its \in {f \in [1..n -> UNION {ItemSeqs(k) : k \in 1..n}] :
                \A k \in 1..n : f[k] \in ItemSeqs(k)}}

Files == UNION {FilesOfLen(n) : n \in 1..MaxOutfits}

\* ordered pairs of positions of an item list whose items differ
DiffPairs(items) ==
  Cardinality({p \in (1..Len(items)) \X (1..Len(items)) :
                 items[p[1]] # items[p[2]]})

\* the number of samples a dataset gives before the cut (bounds the inputs)
RECURSIVE TotalSamples(_, _)
TotalSamples(d, neg) ==
  IF d = <<>> THEN 0
  ELSE DiffPairs(Head(d).Items) + neg * Len(Head(d).Items)
       + TotalSamples(Tail(d), neg)

Limits(m) == {Unlimited} \cup 0..m

VARIABLES
  file,       \* the outfits in the dataset file
  missing,    \* image paths with no readable file under images_path
  args,       \* the constructor arguments, None before construction
  gen,        \* the SamplesGenerator object, None before construction
  s2v,        \* the Style2Vec object, None before construction
  pc,         \* where control is
  ret,        \* who called generate_samples: "api", "fit", "batches"
  loc,        \* locals of the generate_samples call in progress
  gb,         \* frame of the generate_batches generator
  ft,         \* frame of fit_generator: steps, epochs, batches pulled
  io,         \* files read and written, in order
  exc,        \* the exception raised last, None if none
  outcome,    \* how the script ended and what it printed
  calls,      \* calls made on the generator through its API, by method
  neg_draws,  \* accepted draws of the current call: <<outfit, drawn outfit>>
  pass        \* batches yielded in the current pass of generate_batches

vars == <<file, missing, args, gen, s2v, pc, ret, loc, gb, ft, io, exc,
          outcome, calls, neg_draws, pass>>

G == gen[1]

NoLocals == [samples |-> <<>>, oi |-> 0, ii |-> 0, ni |-> 0,
             neg_outfit_index |-> None]

NoGenerator == [state |-> "unstarted", couples |-> <<>>, labels |-> <<>>,
                i |-> 0, current_size |-> 0, batched_targets |-> <<>>,
                batched_contexts |-> <<>>, batched_labels |-> <<>>]

NoFit == [steps_per_epoch |-> 0, epochs |-> 0, pulls |-> 0]

NoPass == [batches |-> <<>>, done |-> FALSE]

\* SamplesGenerator.__init__: the fields it sets
NewGenerator(um, neg, bs, olimit, slimit) ==
  [outfits_count_limit |-> olimit, samples_count_limit |-> slimit,
   batch_size |-> bs, neg_sample_count |-> neg, underlying_model |-> um,
   data |-> None, steps_per_epoch |-> None, samples |-> None]

InitCommon ==
  /\ args = None
  /\ gen = None
  /\ s2v = None
  /\ ret = "api"
  /\ loc = NoLocals
  /\ gb = NoGenerator
  /\ ft = NoFit
  /\ io = <<>>
  /\ exc = None
  /\ outcome = [status |-> "running", printed |-> None]
  /\ calls = [collect_data |-> 0, generate_samples |-> 0]
  /\ neg_draws = {}
  /\ pass = NoPass

\* arguments a SamplesGenerator is built with
GeneratorArgs ==
  [underlying_model : {"inception", "vgg"},
   neg_sample_count : 0..MaxNeg,
   batch_size : {DefaultBatchSize},
   outfits_count_limit : Limits(MaxOutfits + 1),
   samples_count_limit : Limits(MaxLimit)]

InitSamples ==
  /\ file \in Files
  /\ missing = {}
  /\ pc = "new_generator"
  /\ InitCommon

\* ------------------------------------------------- SamplesGenerator

\* SamplesGenerator(...) called directly
SamplesGenerator_init ==
  /\ pc = "new_generator"
  /\ \E a \in GeneratorArgs :
       /\ TotalSamples(file, a.neg_sample_count) <= MaxSamples
       /\ args' = Some(a)
       /\ IF a.underlying_model # "inception"
          THEN /\ exc' = Some("ValueError")
               /\ pc' = "no_generator"
               /\ gen' = None
          ELSE /\ gen' = Some(NewGenerator(a.underlying_model,
                                           a.neg_sample_count, a.batch_size,
                                           a.outfits_count_limit,
                                           a.samples_count_limit))
               /\ pc' = "idle"
               /\ UNCHANGED exc
  /\ UNCHANGED <<file, missing, s2v, ret, loc, gb, ft, io, outcome,
                 calls, neg_draws, pass>>

\* collect_data() called by the user of the generator
collect_data ==
  /\ pc = "idle"
  /\ calls.collect_data < MaxLoads
  /\ calls' = [calls EXCEPT !.collect_data = @ + 1]
  /\ gen' = Some([G EXCEPT !.data = Some(LoadData(file, G.outfits_count_limit))])
  /\ io' = Append(io, "read_dataset")
  /\ UNCHANGED <<file, missing, args, s2v, pc, ret, loc, gb, ft, exc, outcome,
                 neg_draws, pass>>

\* generate_samples up to the first item: lines 58-62
EnterGenerateSamples(r) ==
  LET d == IF G.data = None THEN LoadData(file, G.outfits_count_limit)
           ELSE G.data[1]
  IN  /\ gen' = Some([G EXCEPT !.data = Some(d)])
      /\ io' = IF G.data = None THEN Append(io, "read_dataset") ELSE io
      /\ loc' = [NoLocals EXCEPT !.oi = 1, !.ii = 1]
      /\ pc' = IF Len(d) = 0 THEN "gs_finish" ELSE "gs_item"
      /\ ret' = r
      /\ neg_draws' = {}

\* generate_samples() called by the user of the generator
generate_samples ==
  /\ pc = "idle"
  /\ calls.generate_samples = 0
  /\ calls' = [calls EXCEPT !.generate_samples = @ + 1]
  /\ EnterGenerateSamples("api")
  /\ UNCHANGED <<file, missing, args, s2v, gb, ft, exc, outcome, pass>>

\* an exception leaving generate_samples or generate_batches: a direct
\* caller sees it, inside fit it reaches the script's except clause
RaiseTo(r) == IF r = "api" THEN "idle" ELSE "except"

\* the for loops' next (outfit, item), or the end of both
NextItem(l, d) ==
  IF l.ii < Len(d[l.oi].Items)
  THEN [l EXCEPT !.ii = l.ii + 1, !.ni = 0]
  ELSE [l EXCEPT !.oi = l.oi + 1, !.ii = 1, !.ni = 0]

AfterItem(l, d) ==
  IF l.ii < Len(d[l.oi].Items) \/ l.oi < Len(d) THEN "gs_item" ELSE "gs_finish"

\* one item's positive samples: lines 63-67
gs_item ==
  /\ pc = "gs_item"
  /\ LET d == G.data[1]
         outfit == d[loc.oi]
         item == outfit.Items[loc.ii]
         l == [loc EXCEPT !.samples = loc.samples \o Positives(outfit.Items, item)]
     IN  IF G.neg_sample_count > 0
         THEN /\ loc' = [l EXCEPT !.ni = 0]
              /\ pc' = "gs_neg"
         ELSE /\ loc' = NextItem(l, d)
              /\ pc' = AfterItem(l, d)
  /\ UNCHANGED <<file, missing, args, gen, s2v, ret, gb, ft, io, exc, outcome,
                 calls, neg_draws, pass>>

\* one turn of the while True loop of a negative sample: lines 70-75
gs_draw ==
  /\ pc = "gs_neg"
  /\ LET d == G.data[1]
         outfit == d[loc.oi]
         item == outfit.Items[loc.ii]
     IN  IF RandRange(Len(d) - 1) = {}
         THEN /\ exc' = Some("ValueError")
              /\ pc' = RaiseTo(ret)
              /\ loc' = NoLocals
              /\ UNCHANGED neg_draws
         ELSE \E neg_outfit_index \in RandRange(Len(d) - 1) :
                IF neg_outfit_index # outfit.SetId
                THEN \E neg_item \in Range(d[neg_outfit_index + 1].Items) :
                       LET l == [loc EXCEPT
                                   !.samples = Append(loc.samples,
                                                      <<<<item, neg_item>>, 0>>),
                                   !.ni = loc.ni + 1,
                                   !.neg_outfit_index = Some(neg_outfit_index)]
                       IN  /\ neg_draws' = neg_draws \cup
                                             {<<loc.oi, neg_outfit_index + 1>>}
                           /\ IF l.ni < G.neg_sample_count
                              THEN /\ loc' = l
                                   /\ pc' = "gs_neg"
                              ELSE /\ loc' = NextItem(l, d)
                                   /\ pc' = AfterItem(l, d)
                           /\ UNCHANGED exc
                ELSE /\ loc' = [loc EXCEPT
                                  !.neg_outfit_index = Some(neg_outfit_index)]
                     /\ UNCHANGED <<pc, neg_draws, exc>>
  /\ UNCHANGED <<file, missing, args, gen, s2v, ret, gb, ft, io, outcome,
                 calls, pass>>

\* shuffle, cut, steps_per_epoch, zip and return: lines 76-84
gs_finish ==
  /\ pc = "gs_finish"
  /\ \E shuffled \in Shuffles(loc.samples) :
       LET samples == CutSamples(shuffled, G.samples_count_limit)
           steps == StepsPerEpoch(Len(samples), G.batch_size)
       IN  IF samples = <<>>
           THEN \* zip(*[]) is empty: the unpacking raises
                /\ gen' = Some([G EXCEPT !.steps_per_epoch = Some(steps)])
                /\ exc' = Some("ValueError")
                /\ pc' = RaiseTo(ret)
                /\ UNCHANGED <<gb, pass>>
           ELSE /\ gen' = Some([G EXCEPT !.steps_per_epoch = Some(steps),
                                         !.samples = Some(Unzip(samples))])
                /\ UNCHANGED exc
                /\ IF ret = "batches"
                   THEN \* lines 93-100: the pass's locals
                        /\ gb' = [NoGenerator EXCEPT
                                    !.state = "running",
                                    !.couples = Unzip(samples)[1],
                                    !.labels = Unzip(samples)[2]]
                        /\ pass' = NoPass
                        /\ pc' = "gb_loop"
                   ELSE /\ pc' = IF ret = "fit" THEN "fit_generator" ELSE "idle"
                        /\ UNCHANGED <<gb, pass>>
  /\ loc' = NoLocals
  /\ UNCHANGED <<file, missing, args, s2v, ret, ft, io, outcome, calls,
                 neg_draws>>

NextSamples ==
  \/ SamplesGenerator_init
  \/ collect_data
  \/ generate_samples
  \/ gs_item
  \/ gs_draw
  \/ gs_finish

SpecSamples == InitSamples /\ [][NextSamples]_vars

\* ----------------------------------------------- generate_batches

\* the batch a yield hands over: ([targets, contexts], labels)
Batch(g) == <<<<g.batched_targets, g.batched_contexts>>, g.batched_labels>>

\* a yield inside fit_generator: the batch is consumed as one training step;
\* ModelCheckpoint writes a file when the step ends an epoch
Yield(g, suspended) ==
  /\ gb' = [g EXCEPT !.state = suspended]
  /\ pass' = [pass EXCEPT !.batches = Append(pass.batches, Batch(g))]
  /\ ft' = [ft EXCEPT !.pulls = ft.pulls + 1]
  /\ io' = IF (ft.pulls + 1) % ft.steps_per_epoch = 0
           THEN Append(io, "checkpoint") ELSE io
  /\ pc' = "training"

\* one turn of the for loop over the pass's samples: lines 101-110
gb_iter ==
  /\ pc = "gb_loop"
  /\ gb.i < Len(gb.couples)
  /\ LET target == gb.couples[gb.i + 1][1]
         context == gb.couples[gb.i + 1][2]
     IN  IF gb.current_size < G.batch_size
         THEN IF {target.ImagePath, context.ImagePath} \cap missing # {}
              THEN \* load_img raises inside prep_item
                   /\ exc' = Some("ImageLoadError")
                   /\ pc' = "except"
                   /\ UNCHANGED <<gb, pass, ft, io>>
              ELSE /\ gb' = [gb EXCEPT
                        !.batched_targets = Append(@, PrepItem(target)),
                        !.batched_contexts = Append(@, PrepItem(context)),
                        !.batched_labels = Append(@, gb.labels[gb.i + 1]),
                        !.current_size = @ + 1,
                        !.i = @ + 1]
                   /\ UNCHANGED <<pc, pass, ft, io, exc>>
         ELSE /\ Yield(gb, "suspended_loop")
              /\ UNCHANGED exc
  /\ UNCHANGED <<file, missing, args, gen, s2v, ret, loc, outcome, calls,
                 neg_draws>>

\* after the for loop: lines 111-112, then back to the top of while True
gb_tail ==
  /\ pc = "gb_loop"
  /\ gb.i = Len(gb.couples)
  /\ IF gb.current_size > 0
     THEN /\ Yield(gb, "suspended_tail")
          /\ UNCHANGED <<gen, ret, loc, neg_draws>>
     ELSE /\ EnterGenerateSamples("batches")
          /\ pass' = [pass EXCEPT !.done = TRUE]
          /\ UNCHANGED <<gb, ft>>
  /\ UNCHANGED <<file, missing, args, s2v, exc, outcome, calls>>

\* ---------------------------------------------------------- Style2Vec

\* arguments the script builds Style2Vec with
Style2VecArgs ==
  [underlying_model : {"inception", "vgg"},
   batch_size : 1..MaxBatch,
   epochs_count : 1..MaxEpochs,
   outfits_count_limit : Limits(MaxOutfits + 1),
   samples_count_limit : Limits(MaxTrainSamples)]

\* how many samples generate_samples keeps
KeptSamples(d, neg, limit) ==
  Len(CutSamples([i \in 1..TotalSamples(d, neg) |-> i], limit))

Paths(f) == UNION {{f[k].Items[j].ImagePath : j \in 1..Len(f[k].Items)} :
                     k \in 1..Len(f)}

RECURSIVE ItemCount(_)
ItemCount(f) == IF f = <<>> THEN 0 ELSE Len(Head(f).Items) + ItemCount(Tail(f))

Init ==
  /\ file \in {f \in Files : ItemCount(f) <= MaxTrainItems}
  /\ missing \in {{}} \cup {{p} : p \in Paths(file)}
  /\ pc = "script_start"
  /\ InitCommon

\* Style2Vec.__init__: both towers load their weights, the generator is
\* built from batch_size and the two limits only
Style2Vec_init ==
  /\ pc = "script_start"
  /\ \E a \in Style2VecArgs :
       /\ KeptSamples(LoadData(file, a.outfits_count_limit),
                      DefaultNegSampleCount, a.samples_count_limit)
            <= MaxTrainSamples
       /\ args' = Some(a)
       /\ s2v' = Some([epochs_count |-> a.epochs_count, history |-> None])
       /\ gen' = Some(NewGenerator("inception", DefaultNegSampleCount,
                                   a.batch_size, a.outfits_count_limit,
                                   a.samples_count_limit))
  /\ io' = io \o <<"load_weights", "load_weights">>
  /\ pc' = "constructed"
  /\ UNCHANGED <<file, missing, ret, loc, gb, ft, exc, outcome, calls,
                 neg_draws, pass>>

\* model.fit() inside the script's try: fit calls generate_samples first
fit ==
  /\ pc = "constructed"
  /\ EnterGenerateSamples("fit")
  /\ UNCHANGED <<file, missing, args, s2v, gb, ft, exc, outcome, calls, pass>>

\* fit_generator(generate_batches(), steps_per_epoch, epochs)
fit_generator ==
  /\ pc = "fit_generator"
  /\ ft' = [steps_per_epoch |-> G.steps_per_epoch[1],
            epochs |-> s2v[1].epochs_count, pulls |-> 0]
  /\ gb' = NoGenerator
  /\ pass' = NoPass
  /\ pc' = "training"
  /\ UNCHANGED <<file, missing, args, gen, s2v, ret, loc, io, exc, outcome,
                 calls, neg_draws>>

\* fit_generator asks the generator for the next batch
next_batch ==
  /\ pc = "training"
  /\ ft.pulls < ft.epochs * ft.steps_per_epoch
  /\ IF gb.state = "suspended_loop"
     THEN \* lines 109-110, then the next turn of the for loop
          /\ gb' = [gb EXCEPT !.state = "running", !.current_size = 0,
                              !.batched_targets = <<>>,
                              !.batched_contexts = <<>>,
                              !.batched_labels = <<>>, !.i = @ + 1]
          /\ pc' = "gb_loop"
          /\ UNCHANGED <<gen, io, loc, ret, neg_draws, pass>>
     ELSE \* the top of while True: line 91
          /\ EnterGenerateSamples("batches")
          /\ pass' = [pass EXCEPT !.done = (gb.state = "suspended_tail")]
          /\ UNCHANGED gb
  /\ UNCHANGED <<file, missing, args, s2v, ft, exc, outcome, calls>>

\* ------------------------------------------------- the training script

\* fit returned: lines 278-283
script_success ==
  /\ pc = "training"
  /\ ft.pulls = ft.epochs * ft.steps_per_epoch
  /\ s2v' = Some([s2v[1] EXCEPT !.history = Some("History")])
  /\ io' = io \o <<"save_model", "write_meta">>
  /\ outcome' = [status |-> "ended normally",
                 printed |-> Some("Succesfully finished.")]
  /\ pc' = "done"
  /\ UNCHANGED <<file, missing, args, gen, ret, loc, gb, ft, exc, calls,
                 neg_draws, pass>>

\* except Exception as e: lines 284-288; nothing is raised again
script_except ==
  /\ pc = "except"
  /\ io' = io \o <<"save_err_model", "write_err">>
  /\ outcome' = [status |-> "ended normally",
                 printed |-> Some("Exited with error.")]
  /\ pc' = "done"
  /\ UNCHANGED <<file, missing, args, gen, s2v, ret, loc, gb, ft, exc, calls,
                 neg_draws, pass>>

Next ==
  \/ Style2Vec_init
  \/ fit
  \/ gs_item
  \/ gs_draw
  \/ gs_finish
  \/ fit_generator
  \/ next_batch
  \/ gb_iter
  \/ gb_tail
  \/ script_success
  \/ script_except

Spec == Init /\ [][Next]_vars

\* ------------------------------------------------------------ claims

\* the samples of the generator, as the list of ((target, context), label)
SamplesList ==
  [i \in 1..Len(G.samples[1][1]) |-> <<G.samples[1][1][i], G.samples[1][2][i]>>]

\* the (target, context, label) triples of a batch, in order
Triples(b) == [i \in 1..Len(b[2]) |-> <<b[1][1][i], b[1][2][i], b[2][i]>>]

RECURSIVE Concat(_)
Concat(bs) == IF bs = <<>> THEN <<>> ELSE Triples(Head(bs)) \o Concat(Tail(bs))

\* the pass's sample list as the triples its batches should carry
PassTriples ==
  [i \in 1..Len(gb.couples) |->
     <<PrepItem(gb.couples[i][1]), PrepItem(gb.couples[i][2]), gb.labels[i]>>]

FullBatches(bs, size) == Cardinality({i \in 1..Len(bs) : Len(bs[i][2]) = size})

\* C1: when a pass of generate_batches is over, the batches it yielded,
\* concatenated in yield order, are exactly the pass's sample list, and every
\* batch but the last has batch_size samples.
C1_BatchesAreTheChunksOfThePass ==
  pass.done =>
    /\ Concat(pass.batches) = PassTriples
    /\ \A i \in 1..(Len(pass.batches) - 1) :
         Len(pass.batches[i][2]) = G.batch_size

\* C2: steps_per_epoch is floor(n / batch_size), and a finished pass over the
\* n samples has yielded exactly steps_per_epoch batches of full size.
C2_PassYieldsStepsPerEpochFullBatches ==
  pass.done =>
    /\ G.steps_per_epoch = Some(Len(gb.couples) \div G.batch_size)
    /\ FullBatches(pass.batches, G.batch_size) = G.steps_per_epoch[1]

\* C3: every negative sample accepted by generate_samples was drawn from an
\* outfit other than the one that holds its target item.
C3_NegativeFromAnotherOutfit ==
  \A d \in neg_draws : d[1] # d[2]

Returned ==
  /\ pc = "idle"
  /\ calls.generate_samples = 1
  /\ exc = None
  /\ G.samples # None

NoLimitInEffect ==
  \/ G.samples_count_limit = Unlimited
  \/ Len(G.samples[1][1]) < G.samples_count_limit

\* samples with the given label whose target is an item of the k-th outfit
CountOf(k, label) ==
  Cardinality({i \in 1..Len(SamplesList) :
                 /\ SamplesList[i][2] = label
                 /\ SamplesList[i][1][1] \in Range(G.data[1][k].Items)})

C5_FailureIsSurfaced ==
  (pc = "done" /\ exc # None) =>
    /\ \E i \in 1..Len(io) : \E j \in (i + 1)..Len(io) :
         io[i] = "save_err_model" /\ io[j] = "write_err"
    /\ outcome.status # "ended normally"

OneOutfitWithNegatives ==
  /\ gen # None
  /\ G.data # None
  /\ Len(G.data[1]) = 1
  /\ G.neg_sample_count > 0

\* C6: on a dataset of exactly one outfit with neg_sample_count > 0,
\* generate_samples never retries a draw, never reaches its return, and ends
\* by raising, with no sample list stored.
C6_OneOutfitFailsFast ==
  (OneOutfitWithNegatives /\ calls.generate_samples = 1) =>
    /\ loc.neg_outfit_index = None
    /\ pc # "gs_finish"
    /\ G.samples = None
    /\ pc = "idle" => exc = Some("ValueError")

C6_Witness ==
  /\ OneOutfitWithNegatives
  /\ calls.generate_samples = 1
  /\ pc = "idle"
  /\ exc = Some("ValueError")

\* C7: a constructor given an underlying_model other than 'inception' has
\* raised, with no file read and no generator built.
C7_InvalidModelRaisesBeforeIO ==
  (args # None /\ args[1].underlying_model # "inception") =>
    /\ exc = Some("ValueError")
    /\ io = <<>>
    /\ gen = None

\* C8: during fit_generator, a batch's place in its training epoch is its place
\* in its pass, and a pass starts only when a whole number of epochs is done.
C8_RegenerationAtEpochBoundaries ==
  /\ (pc = "training" /\ ft.pulls > 0) =>
       ((ft.pulls - 1) % ft.steps_per_epoch) + 1 = Len(pass.batches)
  /\ (ret = "batches" /\ pc \in {"gs_item", "gs_neg", "gs_finish"}) =>
       ft.pulls % ft.steps_per_epoch = 0

\* the outfits collect_data keeps of a file under a limit of at least -1
Kept(f, limit) ==
  IF 0 <= limit /\ limit < Len(f)
  THEN [k \in 1..limit |-> f[k]]
  ELSE f

C9_DataIsKept == G.data # None => G.data[1] = Kept(file, G.outfits_count_limit)

C9_NoReload ==
  (gen # None /\ gen' # None /\ G.data # None
     /\ (pc # "idle" \/ pc' # "idle")) =>
    /\ gen'[1].data = G.data
    /\ io' = io

\* C9: the loaded dataset is the first outfits_count_limit outfits of the file
\* in order (the whole file for -1 or a limit that is not smaller), and a
\* generate_samples call on a loaded generator neither reads the file again
\* nor changes the dataset.
C9_CollectData == [](gen # None => C9_DataIsKept) /\ [][C9_NoReload]_vars

C9_Witness ==
  /\ gen # None
  /\ calls.collect_data = 1
  /\ calls.generate_samples = 1
  /\ Len(io) = 1
  /\ 1 <= G.outfits_count_limit
  /\ G.outfits_count_limit < Len(file)

\* C10: with at least two outfits, the retry loop of a negative sample always
\* has an outfit index it can draw and accept.
C10_RetryLoopCanAccept ==
  (pc = "gs_neg" /\ Len(G.data[1]) >= 2) =>
    \E idx \in RandRange(Len(G.data[1]) - 1) :
      idx # G.data[1][loc.oi].SetId

====
